---- MODULE Spec2Model ----
(***************************************************************************)
(* Model of src/cross-lingual-transfer.py: the CrossLingualZeroShot        *)
(* evaluator (load_model, _classify_batch, _evaluate_predictions,          *)
(* perform_cross_lingual_classification), the dataset loader               *)
(* (load_xquad_multilingual, _process_xquad_data, create_sample_data) and  *)
(* the entry point main().                                                 *)
(*                                                                         *)
(* Specifications: Spec (calls of the evaluator on one instance), SpecMain *)
(* (main), SpecLabel (the pseudo-label derivation on bounded texts),       *)
(* SpecFixture (the derivation on the fixture), SpecFlatten                *)
(* (_process_xquad_data on bounded files), SpecLoad (the loader on a       *)
(* bounded directory).                                                     *)
(*                                                                         *)
(* Text is modelled as a sequence of one-character strings, so that        *)
(* str.lower, str.replace, str.isdigit and the `in` substring test are     *)
(* computed character by character as Python computes them.                *)
(***************************************************************************)
EXTENDS Integers, Sequences, FiniteSets, TLC

\* ------------------------------------------------------------------------
\* Bounds of the model
\* ------------------------------------------------------------------------
MaxFrags == 2
MaxRecs == 2
MaxTargets == 2
MaxFaults == 2
MaxCalls == 2
MaxParagraphs == 2
MaxQas == 2

\* ------------------------------------------------------------------------
\* Text primitives (Python str operations used at lines 52-61)
\* ------------------------------------------------------------------------

UpperAZ == <<"A","B","C","D","E","F","G","H","I","J","K","L","M",
             "N","O","P","Q","R","S","T","U","V","W","X","Y","Z">>

LowerAZ == <<"a","b","c","d","e","f","g","h","i","j","k","l","m",
             "n","o","p","q","r","s","t","u","v","w","x","y","z">>

\* str.lower() of the characters outside ASCII that occur in the fixture and
\* have a lower-case form (U+0130 lowers to two characters)
LowerOther ==
    << <<"U+00D3", <<"U+00F3">>>>,
       <<"U+0130", <<"i","U+0307">>>>,
       <<"U+0411", <<"U+0431">>>>,
       <<"U+0413", <<"U+0433">>>>,
       <<"U+0414", <<"U+0434">>>>,
       <<"U+041A", <<"U+043A">>>>,
       <<"U+041B", <<"U+043B">>>>,
       <<"U+041C", <<"U+043C">>>>,
       <<"U+041F", <<"U+043F">>>>,
       <<"U+0421", <<"U+0441">>>>,
       <<"U+0422", <<"U+0442">>>>,
       <<"U+0424", <<"U+0444">>>>,
       <<"U+042D", <<"U+044D">>>>,
       <<"U+042E", <<"U+044E">>>> >>

\* str.lower() on one character, as a string: A-Z map to a-z, the characters of
\* LowerOther to their lower-case form, every other character of the model's
\* alphabet (lower-case letters, digits, punctuation, caseless scripts) is
\* unchanged
LowerChar(c) ==
    IF \E i \in 1..Len(UpperAZ) : UpperAZ[i] = c
    THEN << LowerAZ[CHOOSE i \in 1..Len(UpperAZ) : UpperAZ[i] = c] >>
    ELSE IF \E i \in 1..Len(LowerOther) : LowerOther[i][1] = c
         THEN LowerOther[CHOOSE i \in 1..Len(LowerOther) : LowerOther[i][1] = c][2]
         ELSE << c >>

RECURSIVE Lower(_)
\* str.lower()
Lower(t) == IF t = <<>> THEN <<>> ELSE LowerChar(Head(t)) \o Lower(Tail(t))

RECURSIVE RemoveChar(_, _)
\* str.replace(ch, '') : every occurrence of ch is removed
RemoveChar(t, ch) ==
    IF t = <<>> THEN <<>>
    ELSE IF Head(t) = ch THEN RemoveChar(Tail(t), ch)
         ELSE <<Head(t)>> \o RemoveChar(Tail(t), ch)

DigitChars == {"0", "1", "2", "3", "4", "5", "6", "7", "8", "9"}

\* str.isdigit(): false on the empty string, true when every character is a digit
IsDigit(t) == Len(t) > 0 /\ \A i \in 1..Len(t) : t[i] \in DigitChars

\* `word in text` : word occurs as a contiguous substring of text
Contains(text, word) ==
    \E i \in 1..(Len(text) - Len(word) + 1) :
        SubSeq(text, i, i + Len(word) - 1) = word

\* any(word in text for word in words), words being a list
AnyWordIn(text, words) == \E k \in 1..Len(words) : Contains(text, words[k])

\* ------------------------------------------------------------------------
\* Keyword lists of _evaluate_predictions (lines 53, 55, 57, 61)
\* ------------------------------------------------------------------------
W_who == <<"w","h","o">>
W_person == <<"p","e","r","s","o","n">>
W_people == <<"p","e","o","p","l","e">>
W_name == <<"n","a","m","e">>
W_where == <<"w","h","e","r","e">>
W_city == <<"c","i","t","y">>
W_country == <<"c","o","u","n","t","r","y">>
W_place == <<"p","l","a","c","e">>
W_when == <<"w","h","e","n">>
W_year == <<"y","e","a","r">>
W_month == <<"m","o","n","t","h">>
W_time == <<"t","i","m","e">>
W_company == <<"c","o","m","p","a","n","y">>
W_organization == <<"o","r","g","a","n","i","z","a","t","i","o","n">>
W_institution == <<"i","n","s","t","i","t","u","t","i","o","n">>

PersonWords == <<W_who, W_person, W_people, W_name>>
LocationWords == <<W_where, W_city, W_country, W_place>>
DateWords == <<W_when, W_year, W_month, W_time>>
OrganizationWords == <<W_company, W_organization, W_institution>>

\* the literal "unknown" used when a record has no answers (line 52)
T_unknown == <<"u","n","k","n","o","w","n">>

\* ------------------------------------------------------------------------
\* Pseudo-label derivation (lines 52-64)
\* ------------------------------------------------------------------------

\* answer_text = item['answers'][0]['text'] if item['answers'] else "unknown"
AnswerText(answers) == IF answers # <<>> THEN answers[1].text ELSE T_unknown

\* the chain with the location test placed before the person test
ground_truth_label_LocationFirst(answer_text) ==
    IF AnyWordIn(Lower(answer_text), LocationWords) THEN "location"
    ELSE IF AnyWordIn(Lower(answer_text), PersonWords) THEN "person"
    ELSE IF AnyWordIn(Lower(answer_text), DateWords) THEN "date"
    ELSE IF IsDigit(RemoveChar(RemoveChar(answer_text, "."), ",")) THEN "number"
    ELSE IF AnyWordIn(Lower(answer_text), OrganizationWords) THEN "organization"
    ELSE "description"

\* the if/elif chain of lines 53-64 applied to answer_text
ground_truth_label(answer_text) ==
    IF AnyWordIn(Lower(answer_text), PersonWords) THEN "person"
    ELSE IF AnyWordIn(Lower(answer_text), LocationWords) THEN "location"
    ELSE IF AnyWordIn(Lower(answer_text), DateWords) THEN "date"
    ELSE IF IsDigit(RemoveChar(RemoveChar(answer_text, "."), ",")) THEN "number"
    ELSE IF AnyWordIn(Lower(answer_text), OrganizationWords) THEN "organization"
    ELSE "description"

\* the category appended to ground_truth for one item (lines 52-64)
PseudoLabel(item) == ground_truth_label(AnswerText(item.answers))

\* ------------------------------------------------------------------------
\* Evaluator constants
\* ------------------------------------------------------------------------

\* number of entries of available_models, all of them in models_to_use by default
NumModels == 5

\* the label list built by perform_cross_lingual_classification
labels ==
    << "person", "location", "organization", "date", "number", "description",
       "sports", "politics", "technology", "science", "health", "history",
       "geography", "arts", "entertainment", "culture", "society", "economy",
       "business" >>

\* names bound by `from sklearn.metrics import ...`
ImportedMetrics == { "classification_report", "accuracy_score", "f1_score" }

\* the metric functions called while the metrics dict is built, in evaluation
\* order, each with the key it fills
MetricCalls ==
    << [key |-> "accuracy", fn |-> "accuracy_score"],
       [key |-> "f1_macro", fn |-> "f1_score"],
       [key |-> "f1_weighted", fn |-> "f1_score"],
       [key |-> "precision", fn |-> "precision_score"],
       [key |-> "recall", fn |-> "recall_score"],
       [key |-> "classification_report", fn |-> "classification_report"] >>

\* ------------------------------------------------------------------------
\* Python list and dict helpers
\* ------------------------------------------------------------------------

\* Slice with the slice forgotten: the whole list
Slice_Unsliced(seq, n) == seq

\* seq[:n] : the first n items for n >= 0 (all of them when n exceeds the
\* length), all but the last -n items for n < 0
Slice(seq, n) ==
    IF n >= 0
    THEN SubSeq(seq, 1, IF n < Len(seq) THEN n ELSE Len(seq))
    ELSE SubSeq(seq, 1, IF Len(seq) + n > 0 THEN Len(seq) + n ELSE 0)

\* {} : the empty dict
EmptyDict == [k \in {} |-> {}]

\* d[k] = v on a dict
DictSet(d, k, v) == [x \in (DOMAIN d) \cup {k} |-> IF x = k THEN v ELSE d[x]]

\* ------------------------------------------------------------------------
\* _evaluate_predictions (lines 48-87)
\* ------------------------------------------------------------------------

\* the ground-truth loop reads item['answers'] and item['answers'][0]['text']:
\* it raises on an item without the key, or whose first answer has no 'text'
DerivationRaises(data) ==
    \E i \in 1..Len(data) :
        \/ "answers" \notin DOMAIN data[i]
        \/ /\ data[i].answers # <<>>
           /\ "text" \notin DOMAIN data[i].answers[1]

\* a metric call raises NameError when its function was never imported
MetricsRaise == \E k \in 1..Len(MetricCalls) : MetricCalls[k].fn \notin ImportedMetrics

\* number of index-wise matches, as accuracy_score counts them
Matches(ground_truth, predictions) ==
    Cardinality({ i \in 1..Len(predictions) : ground_truth[i] = predictions[i] })

\* the metrics dict returned at line 79; accuracy is kept as the fraction
\* <<matches, total>>, the other scores as the name of the function that
\* computed them
NormalResult(predictions, ground_truth) ==
    [ k \in { MetricCalls[i].key : i \in 1..Len(MetricCalls) }
            \cup { "predictions", "ground_truth" } |->
        CASE k = "predictions" -> predictions
          [] k = "ground_truth" -> ground_truth
          [] k = "accuracy" -> << Matches(ground_truth, predictions), Len(predictions) >>
          [] OTHER -> "computed" ]

\* DegradedResult with the repetition forgotten: one "unknown"
DegradedResult_SingleUnknown(error, predictions) ==
    [ error |-> error,
      predictions |-> predictions,
      ground_truth |-> << "unknown" >> ]

\* the dict returned by the except branch (lines 83-87)
DegradedResult(error, predictions) ==
    [ error |-> error,
      predictions |-> predictions,
      ground_truth |-> [i \in 1..Len(predictions) |-> "unknown"] ]

evaluate_predictions(predictions, data) ==
    IF DerivationRaises(data) THEN DegradedResult("KeyError", predictions)
    ELSE IF MetricsRaise THEN DegradedResult("NameError", predictions)
    ELSE NormalResult(predictions, [i \in 1..Len(data) |-> PseudoLabel(data[i])])

\* ------------------------------------------------------------------------
\* _process_xquad_data (lines 599-620).  A parsed JSON value is kept with its
\* Python type: a dict as [type |-> "dict", obj |-> the record of its keys], a
\* list (of dicts) as [type |-> "list", items |-> ...], a number as
\* [type |-> "number"].
\* ------------------------------------------------------------------------

\* the state of the loops: the records appended so far, and whether a key
\* lookup raised
FlattenStart == [raised |-> FALSE, out |-> <<>>]

\* ProcessQas appending each record at the front of the list
RECURSIVE ProcessQas_Prepend(_, _, _)
ProcessQas_Prepend(qas, context, st) ==
    IF st.raised \/ qas = <<>> THEN st
    ELSE LET qa == Head(qas)
         IN IF { "question", "answers", "id" } \subseteq DOMAIN qa
            THEN ProcessQas_Prepend(Tail(qas), context,
                     [raised |-> FALSE,
                      out |-> << [context |-> context, question |-> qa.question,
                                  answers |-> qa.answers, id |-> qa.id] >> \o st.out])
            ELSE [raised |-> TRUE, out |-> st.out]

\* lines 606-612: one record is appended per qa, in order; qa['question'],
\* qa['answers'] or qa['id'] raises KeyError on a qa without the key
RECURSIVE ProcessQas(_, _, _)
ProcessQas(qas, context, st) ==
    IF st.raised \/ qas = <<>> THEN st
    ELSE LET qa == Head(qas)
         IN IF { "question", "answers", "id" } \subseteq DOMAIN qa
            THEN ProcessQas(Tail(qas), context,
                     [raised |-> FALSE,
                      out |-> Append(st.out,
                                 [context |-> context, question |-> qa.question,
                                  answers |-> qa.answers, id |-> qa.id])])
            ELSE [raised |-> TRUE, out |-> st.out]

\* lines 604-606: paragraph['context'] then paragraph['qas'], KeyError on a
\* paragraph without the key
RECURSIVE ProcessParagraphs(_, _)
ProcessParagraphs(paragraphs, st) ==
    IF st.raised \/ paragraphs = <<>> THEN st
    ELSE LET paragraph == Head(paragraphs)
         IN IF { "context", "qas" } \subseteq DOMAIN paragraph
            THEN ProcessParagraphs(Tail(paragraphs),
                                   ProcessQas(paragraph.qas, paragraph.context, st))
            ELSE [raised |-> TRUE, out |-> st.out]

\* lines 603-604: article['paragraphs'], KeyError on an article without the key
RECURSIVE ProcessArticles(_, _)
ProcessArticles(articles, st) ==
    IF st.raised \/ articles = <<>> THEN st
    ELSE LET article == Head(articles)
         IN IF "paragraphs" \in DOMAIN article
            THEN ProcessArticles(Tail(articles), ProcessParagraphs(article.paragraphs, st))
            ELSE [raised |-> TRUE, out |-> st.out]

\* the whole function: a dict with 'data' is flattened, and [] is returned when
\* a lookup raised (line 616-618); a dict without 'data' and a list are
\* returned as they are (line 615); on a number `'data' in raw_data` raises
\* TypeError inside the try, so [] is returned
process_xquad_data(raw) ==
    CASE raw.type = "dict" ->
             IF "data" \in DOMAIN raw.obj
             THEN LET st == ProcessArticles(raw.obj.data, FlattenStart)
                  IN IF st.raised THEN <<>> ELSE st.out
             ELSE raw
      [] raw.type = "list" -> raw
      [] OTHER -> <<>>

\* ------------------------------------------------------------------------
\* State
\* ------------------------------------------------------------------------
VARIABLES
    classifier,        \* self.classifier: 0 is None, k the pipeline of model k
    loadCalls,         \* number of load_model invocations on the instance
    loadOK,            \* how the latest load_model call ended: "none", "ok", "raised"
    oracle,            \* the capability's top-ranked label for each question
    calls,             \* number of perform_cross_lingual_classification calls
    pc,                \* position of the current call
    data_by_language,  \* argument of the current call
    source_lang,       \* argument of the current call
    target_langs,      \* argument of the current call
    sample_size,       \* argument of the current call
    results,           \* the Results Mapping under construction
    lang,              \* language of the batch being processed
    data,              \* source_data / target_data: the sampled records
    predictions,       \* predictions of the batch being classified
    replies,           \* what the capability did on each item of the batch
    tpos,              \* number of target_langs entries consumed by the loop
    exc,               \* the exception that left the call
    faults,            \* per-item capability failures during the current call
    classified,        \* the items handed to the capability during the current call
    mpc,               \* position of main(), "off" when main() is not running
    mexc,              \* the exception bound by main()'s except clause
    attempts,          \* number of times main() started the pipeline
    stdout,            \* what main() printed for each language of the results
    lblAnswers,        \* the answers list of the record handed to the derivation
    lblOut,            \* the derived category, "" before the derivation ran
    derived,           \* the ground_truth lists the derivation loop builds on the fixture
    base_path,         \* the data directory load_xquad_multilingual reads
    lpc,               \* position of load_xquad_multilingual, "off" when not running
    lpos,              \* number of supported_languages entries the loop consumed
    loaded,            \* the loader's data_by_language, then its return value
    lexc,              \* the exception that left load_xquad_multilingual
    raw_data,          \* argument of _process_xquad_data
    fpc,               \* position of _process_xquad_data, "off" when not running
    processed_data     \* return value of _process_xquad_data

callVars == <<data_by_language, source_lang, target_langs, sample_size>>
batchVars == <<lang, data, predictions, replies>>
mainVars == <<mpc, mexc, attempts, stdout>>
labelVars == <<lblAnswers, lblOut>>
loaderVars == <<base_path, lpc, lpos, loaded, lexc>>
flattenVars == <<raw_data, fpc, processed_data>>

vars == <<classifier, loadCalls, loadOK, oracle, calls, pc, callVars, results, derived,
          batchVars, tpos, exc, faults, classified, mainVars, labelVars, loaderVars,
          flattenVars>>

\* ------------------------------------------------------------------------
\* create_sample_data (lines 129-597): the built-in fixture dataset.  Answer
\* texts are spelled character by character, a character outside ASCII by its
\* code point; the question text is reduced to the class the capability tells
\* apart and the context to one placeholder, neither being read by the
\* derivation.
\* ------------------------------------------------------------------------

\* one fixture record: id ("en_1" is kept as the pair <<"en", 1>>), position in
\* its list, the single answer's text
SampleRecord(id, i, text) ==
    [ id |-> id, context |-> "ctx",
      question |-> IF i % 2 = 1 THEN "q1" ELSE "q2",
      answers |-> << [text |-> text] >> ]

sample_en ==
    << SampleRecord(<<"en", 1>>, 1, <<"f","o","x">>),
       SampleRecord(<<"en", 2>>, 2, <<"N","e","i","l"," ","A","r","m","s","t","r","o","n","g">>),
       SampleRecord(<<"en", 3>>, 3, <<"T","h","e"," ","N","i","l","e">>),
       SampleRecord(<<"en", 4>>, 4, <<"M","o","u","n","t"," ","E","v","e","r","e","s","t">>),
       SampleRecord(<<"en", 5>>, 5, <<"T","h","e"," ","G","r","e","a","t"," ","W","a","l","l"," ","o","f"," ","C","h","i","n","a">>),
       SampleRecord(<<"en", 6>>, 6, <<"P","a","r","i","s">>),
       SampleRecord(<<"en", 7>>, 7, <<"S","h","a","k","e","s","p","e","a","r","e">>),
       SampleRecord(<<"en", 8>>, 8, <<"T","h","e"," ","P","a","c","i","f","i","c"," ","O","c","e","a","n">>),
       SampleRecord(<<"en", 9>>, 9, <<"T","h","o","m","a","s"," ","E","d","i","s","o","n">>),
       SampleRecord(<<"en", 10>>, 10, <<"L","e","o","n","a","r","d","o"," ","d","a"," ","V","i","n","c","i">>),
       SampleRecord(<<"en", 11>>, 11, <<"T","h","e"," ","S","a","h","a","r","a"," ","D","e","s","e","r","t">>) >>

sample_es ==
    << SampleRecord(<<"es", 1>>, 1, <<"z","o","r","r","o">>),
       SampleRecord(<<"es", 2>>, 2, <<"1","4","9","2">>),
       SampleRecord(<<"es", 3>>, 3, <<"P","a","r","U+00ED","s">>),
       SampleRecord(<<"es", 4>>, 4, <<"E","l"," ","A","m","a","z","o","n","a","s">>),
       SampleRecord(<<"es", 5>>, 5, <<"B","u","e","n","o","s"," ","A","i","r","e","s">>),
       SampleRecord(<<"es", 6>>, 6, <<"M","i","g","u","e","l"," ","d","e"," ","C","e","r","v","a","n","t","e","s">>),
       SampleRecord(<<"es", 7>>, 7, <<"E","l"," ","E","v","e","r","e","s","t">>),
       SampleRecord(<<"es", 8>>, 8, <<"R","e","a","l"," ","M","a","d","r","i","d">>),
       SampleRecord(<<"es", 9>>, 9, <<"1","7","8","9">>),
       SampleRecord(<<"es", 10>>, 10, <<"P","a","b","l","o"," ","P","i","c","a","s","s","o">>),
       SampleRecord(<<"es", 11>>, 11, <<"L","a"," ","U+00D3","p","e","r","a"," ","d","e"," ","S","U+00ED","d","n","e","y">>),
       SampleRecord(<<"es", 12>>, 12, <<"e","n"," ","G","r","a","n","a","d","a",","," ","E","s","p","a","U+00F1","a">>) >>

sample_ru ==
    << SampleRecord(<<"ru", 1>>, 1, <<"U+041C","U+043E","U+0441","U+043A","U+0432","U+0430">>),
       SampleRecord(<<"ru", 2>>, 2, <<"U+041B","U+0435","U+0432"," ","U+0422","U+043E","U+043B","U+0441","U+0442","U+043E","U+0439">>),
       SampleRecord(<<"ru", 3>>, 3, <<"U+0411","U+0430","U+0439","U+043A","U+0430","U+043B">>),
       SampleRecord(<<"ru", 4>>, 4, <<"U+042E","U+0440","U+0438","U+0439"," ","U+0413","U+0430","U+0433","U+0430","U+0440","U+0438","U+043D">>),
       SampleRecord(<<"ru", 5>>, 5, <<"U+0421","U+0430","U+043D","U+043A","U+0442","-","U+041F","U+0435","U+0442","U+0435","U+0440","U+0431","U+0443","U+0440","U+0433">>),
       SampleRecord(<<"ru", 6>>, 6, <<"U+041A","U+0440","U+0430","U+0441","U+043D","U+0430","U+044F"," ","U+043F","U+043B","U+043E","U+0449","U+0430","U+0434","U+044C">>),
       SampleRecord(<<"ru", 7>>, 7, <<"U+0424","U+0451","U+0434","U+043E","U+0440"," ","U+0414","U+043E","U+0441","U+0442","U+043E","U+0435","U+0432","U+0441","U+043A","U+0438","U+0439">>),
       SampleRecord(<<"ru", 8>>, 8, <<"U+0422","U+0440","U+0430","U+043D","U+0441","U+0441","U+0438","U+0431","U+0438","U+0440","U+0441","U+043A","U+0430","U+044F"," ","U+043C","U+0430","U+0433","U+0438","U+0441","U+0442","U+0440","U+0430","U+043B","U+044C">>),
       SampleRecord(<<"ru", 9>>, 9, <<"U+042D","U+0440","U+043C","U+0438","U+0442","U+0430","U+0436">>),
       SampleRecord(<<"ru", 10>>, 10, <<"U+041A","U+0440","U+0435","U+043C","U+043B","U+044C">>),
       SampleRecord(<<"ru", 11>>, 11, <<"U+0432"," ","U+0441","U+0430","U+043C","U+043E","U+043C"," ","U+0441","U+0435","U+0440","U+0434","U+0446","U+0435"," ","U+041C","U+043E","U+0441","U+043A","U+0432","U+044B">>) >>

sample_ar ==
    << SampleRecord(<<"ar", 1>>, 1, <<"U+0627","U+0644","U+0647","U+0631","U+0645"," ","U+0627","U+0644","U+0623","U+0643","U+0628","U+0631">>),
       SampleRecord(<<"ar", 2>>, 2, <<"U+0627","U+0644","U+0628","U+062A","U+0631","U+0627","U+0621">>),
       SampleRecord(<<"ar", 3>>, 3, <<"U+0642","U+0646","U+0627","U+0629"," ","U+0627","U+0644","U+0633","U+0648","U+064A","U+0633">>),
       SampleRecord(<<"ar", 4>>, 4, <<"U+0627","U+0628","U+0646"," ","U+0627","U+0644","U+0647","U+064A","U+062B","U+0645">>),
       SampleRecord(<<"ar", 5>>, 5, <<"U+0628","U+0631","U+062C"," ","U+062E","U+0644","U+064A","U+0641","U+0629">>),
       SampleRecord(<<"ar", 6>>, 6, <<"U+0635","U+0644","U+0627","U+062D"," ","U+0627","U+0644","U+062F","U+064A","U+0646"," ","U+0627","U+0644","U+0623","U+064A","U+0648","U+0628","U+064A">>),
       SampleRecord(<<"ar", 7>>, 7, <<"U+0646","U+0647","U+0631"," ","U+0627","U+0644","U+0646","U+064A","U+0644">>),
       SampleRecord(<<"ar", 8>>, 8, <<"U+0627","U+0644","U+0643","U+0639","U+0628","U+0629">>),
       SampleRecord(<<"ar", 9>>, 9, <<"U+0627","U+0644","U+0644","U+063A","U+0629"," ","U+0627","U+0644","U+0639","U+0631","U+0628","U+064A","U+0629">>),
       SampleRecord(<<"ar", 10>>, 10, <<"U+0627","U+0644","U+0623","U+0647","U+0631","U+0627","U+0645","U+0627","U+062A">>),
       SampleRecord(<<"ar", 11>>, 11, <<"U+0641","U+064A"," ","U+0645","U+0635","U+0631">>) >>

sample_de ==
    << SampleRecord(<<"de", 2>>, 1, <<"A","l","b","e","r","t"," ","E","i","n","s","t","e","i","n">>),
       SampleRecord(<<"de", 3>>, 2, <<"9","."," ","N","o","v","e","m","b","e","r"," ","1","9","8","9">>),
       SampleRecord(<<"de", 4>>, 3, <<"z","e","h","n">>),
       SampleRecord(<<"de", 5>>, 4, <<"A","n","g","e","l","a"," ","M","e","r","k","e","l">>),
       SampleRecord(<<"de", 6>>, 5, <<"D","a","s"," ","B","r","a","n","d","e","n","b","u","r","g","e","r"," ","T","o","r">>),
       SampleRecord(<<"de", 7>>, 6, <<"J","o","h","a","n","n"," ","W","o","l","f","g","a","n","g"," ","v","o","n"," ","G","o","e","t","h","e">>),
       SampleRecord(<<"de", 8>>, 7, <<"d","i","c","h","t","e"," ","W","U+00E4","l","d","e","r"," ","u","n","d"," ","K","u","c","k","u","c","k","s","u","h","r","e","n">>),
       SampleRecord(<<"de", 9>>, 8, <<"3","."," ","O","k","t","o","b","e","r"," ","1","9","9","0">>),
       SampleRecord(<<"de", 10>>, 9, <<"2",".","9","6","2"," ","M","e","t","e","r">>),
       SampleRecord(<<"de", 11>>, 10, <<"J","o","h","a","n","n","e","s"," ","G","u","t","e","n","b","e","r","g">>) >>

sample_zh ==
    << SampleRecord(<<"zh", 1>>, 1, <<"U+957F","U+57CE">>),
       SampleRecord(<<"zh", 2>>, 2, <<"U+5B54","U+5B50">>),
       SampleRecord(<<"zh", 3>>, 3, <<"U+957F","U+6C5F">>),
       SampleRecord(<<"zh", 4>>, 4, <<"U+5317","U+4EAC","U+5E02","U+4E2D","U+5FC3">>),
       SampleRecord(<<"zh", 5>>, 5, <<"1","0","U+6708","1","U+65E5">>),
       SampleRecord(<<"zh", 6>>, 6, <<"U+9020","U+7EB8","U+672F","U+3001","U+5370","U+5237","U+672F","U+3001","U+6307","U+5357","U+9488","U+548C","U+706B","U+836F">>),
       SampleRecord(<<"zh", 7>>, 7, <<"U+79E6","U+59CB","U+7687">>),
       SampleRecord(<<"zh", 8>>, 8, <<"U+4E2D","U+56FD">>),
       SampleRecord(<<"zh", 9>>, 9, <<"U+56DB","U+5DDD","U+3001","U+9655","U+897F","U+548C","U+7518","U+8083">>),
       SampleRecord(<<"zh", 10>>, 10, <<"U+5F20","U+827A","U+8C0B">>) >>

sample_tr ==
    << SampleRecord(<<"tr", 1>>, 1, <<"A","n","k","a","r","a">>),
       SampleRecord(<<"tr", 2>>, 2, <<"K","U+0131","z","U+0131","l","U+0131","r","m","a","k">>),
       SampleRecord(<<"tr", 3>>, 3, <<"A","t","a","t","U+00FC","r","k">>),
       SampleRecord(<<"tr", 4>>, 4, <<"t","r","a","v","e","r","t","e","n","l","e","r","i"," ","v","e"," ","t","e","r","m","a","l"," ","s","u","l","a","r","U+0131","y","l","a">>),
       SampleRecord(<<"tr", 5>>, 5, <<"V","a","n"," ","G","U+00F6","l","U+00FC">>),
       SampleRecord(<<"tr", 6>>, 6, <<"U+0130","s","t","a","n","b","u","l"," ","B","o","U+011F","a","z","U+0131">>),
       SampleRecord(<<"tr", 7>>, 7, <<"p","e","r","i"," ","b","a","c","a","l","a","r","U+0131"," ","v","e"," ","b","a","l","o","n"," ","t","u","r","l","a","r","U+0131","y","l","a">>),
       SampleRecord(<<"tr", 8>>, 8, <<"U","N","E","S","C","O"," ","D","U+00FC","n","y","a"," ","M","i","r","a","s","U+0131"," ","L","i","s","t","e","s","i">>),
       SampleRecord(<<"tr", 9>>, 9, <<"d","e","v","a","s","a"," ","h","e","y","k","e","l","l","e","r","i"," ","v","e"," ","t","a","r","i","h","i"," ","k","a","l","U+0131","n","t","U+0131","l","a","r","U+0131","y","l","a">>),
       SampleRecord(<<"tr", 10>>, 10, <<"m","u","t","a","s","a","v","v","U+0131","f"," ","v","e"," ","M","e","v","l","e","v","i","l","i","k"," ","t","a","r","i","k","a","t","U+0131","n","U+0131","n"," ","k","u","r","u","c","u","s","u">>) >>

sample_data ==
    [ l \in { "en", "es", "ru", "ar", "de", "zh", "tr" } |->
        CASE l = "en" -> sample_en
          [] l = "es" -> sample_es
          [] l = "ru" -> sample_ru
          [] l = "ar" -> sample_ar
          [] l = "de" -> sample_de
          [] l = "zh" -> sample_zh
          [] l = "tr" -> sample_tr ]

\* ------------------------------------------------------------------------
\* Inputs of the evaluator
\* ------------------------------------------------------------------------
Langs == { "en", "es", "fr" }
DataLangs == { "en", "es" }
SourceLangs == { "en", "fr" }
Questions == { "q1", "q2" }
TopLabels == { "location", "person" }

\* the capability as a function of the question: the questions are told apart
Oracles == { f \in [Questions -> TopLabels] : f["q1"] # f["q2"] }

\* the i-th record of a language file: well-formed records with one answer,
\* with two answers, with an empty answers list, and records without the
\* 'answers' key
BaseRecord(l, i) ==
    IF l = "en"
    THEN CASE i % 3 = 1 -> [id |-> <<l, i>>, context |-> "ctx", question |-> "q1",
                            answers |-> << [text |-> W_city] >>]
           [] i % 3 = 2 -> [id |-> <<l, i>>, context |-> "ctx", question |-> "q2",
                            answers |-> << >>]
           [] OTHER -> [id |-> <<l, i>>, context |-> "ctx", question |-> "q1"]
    ELSE CASE i % 3 = 1 -> [id |-> <<l, i>>, context |-> "ctx", question |-> "q2",
                            answers |-> << [text |-> <<"1", ",", "2">>], [text |-> W_who] >>]
           [] i % 3 = 2 -> [id |-> <<l, i>>, context |-> "ctx", question |-> "q2"]
           [] OTHER -> [id |-> <<l, i>>, context |-> "ctx", question |-> "q1",
                        answers |-> << [text |-> W_city] >>]

\* Language Datasets: any subset of DataLangs, each with 0..MaxRecs records
Datasets ==
    UNION { { [l \in K |-> [i \in 1..n[l] |-> BaseRecord(l, i)]] : n \in [K -> 0..MaxRecs] }
            : K \in SUBSET DataLangs }

TargetLists == UNION { [1..n -> Langs] : n \in 0..MaxTargets }

\* sample_size: negative, zero, one, and as many as the longest language has
SampleSizes == { -1, 0, 1, MaxRecs }

\* ------------------------------------------------------------------------
\* Initial state: a freshly constructed CrossLingualZeroShot (lines 16-31)
\* ------------------------------------------------------------------------
NoException == [type |-> "none"]

\* no file system is attached and load_xquad_multilingual is not running
NoFs == [exists |-> FALSE, fault |-> FALSE, other |-> FALSE, files |-> EmptyDict]

NoLoader ==
    /\ base_path = NoFs
    /\ lpc = "off"
    /\ lpos = 0
    /\ loaded = EmptyDict
    /\ lexc = NoException

\* _process_xquad_data is not running
NoFlatten ==
    /\ raw_data = [type |-> "none"]
    /\ fpc = "off"
    /\ processed_data = <<>>

NoCall ==
    /\ pc = "idle"
    /\ data_by_language = EmptyDict
    /\ source_lang = ""
    /\ target_langs = <<>>
    /\ sample_size = 0
    /\ results = EmptyDict
    /\ derived = EmptyDict
    /\ lang = ""
    /\ data = <<>>
    /\ predictions = <<>>
    /\ replies = <<>>
    /\ tpos = 0
    /\ exc = NoException
    /\ faults = 0
    /\ classified = <<>>

Init ==
    /\ classifier = 0
    /\ loadCalls = 0
    /\ loadOK = "none"
    /\ oracle \in Oracles
    /\ calls = 0
    /\ NoCall
    /\ mpc = "off"
    /\ mexc = NoException
    /\ attempts = 0
    /\ stdout = EmptyDict
    /\ lblAnswers = <<>>
    /\ lblOut = ""
    /\ NoLoader
    /\ NoFlatten

\* ------------------------------------------------------------------------
\* perform_cross_lingual_classification (lines 622-658)
\* ------------------------------------------------------------------------

\* entering the function with the given arguments
Enter(d, s, t, n) ==
    /\ pc' = "entry"
    /\ data_by_language' = d
    /\ source_lang' = s
    /\ target_langs' = t
    /\ sample_size' = n
    /\ results' = EmptyDict
    /\ UNCHANGED derived
    /\ lang' = ""
    /\ data' = <<>>
    /\ predictions' = <<>>
    /\ replies' = <<>>
    /\ tpos' = 0
    /\ exc' = NoException
    /\ faults' = 0
    /\ classified' = <<>>
    /\ calls' = calls + 1

\* a caller invokes the method on the instance
Call ==
    /\ mpc = "off"
    /\ pc = "idle"
    /\ calls < MaxCalls
    /\ \E d \in Datasets, s \in SourceLangs, t \in TargetLists, n \in SampleSizes :
          Enter(d, s, t, n)
    /\ UNCHANGED <<classifier, loadCalls, loadOK, oracle, mainVars, labelVars,
                   loaderVars, flattenVars>>

\* an exception leaves the call
Raise(e) ==
    /\ pc' = "raised"
    /\ exc' = e

\* line 629: the adapter is already set, load_model is not called
SkipLoad ==
    /\ pc = "entry"
    /\ classifier # 0
    /\ pc' = "check"
    /\ UNCHANGED <<classifier, loadCalls, loadOK, oracle, calls, callVars,
                   results, derived, batchVars, tpos, exc, faults,
                   classified, mainVars, labelVars, loaderVars,
                   flattenVars>>

\* load_model (lines 33-46): pipeline() of model m raises after the models
\* before it were constructed and assigned; the exception is logged and re-raised
LoadPipelineRaises ==
    /\ pc = "entry"
    /\ classifier = 0
    /\ \E m \in 1..NumModels : classifier' = m - 1
    /\ loadCalls' = loadCalls + 1
    /\ loadOK' = "raised"
    /\ Raise([type |-> "LoadError"])
    /\ UNCHANGED <<oracle, calls, callVars, results, derived, batchVars, tpos,
                   faults, classified, mainVars, labelVars, loaderVars,
                   flattenVars>>

\* load_model: every pipeline was constructed, len(self.classifier) at line 43
\* raises (the pipeline object has no length); logged and re-raised
LoadLenRaises ==
    /\ pc = "entry"
    /\ classifier = 0
    /\ classifier' = NumModels
    /\ loadCalls' = loadCalls + 1
    /\ loadOK' = "raised"
    /\ Raise([type |-> "LoadError"])
    /\ UNCHANGED <<oracle, calls, callVars, results, derived, batchVars, tpos,
                   faults, classified, mainVars, labelVars, loaderVars,
                   flattenVars>>

\* load_model completes
LoadOK ==
    /\ pc = "entry"
    /\ classifier = 0
    /\ classifier' = NumModels
    /\ loadCalls' = loadCalls + 1
    /\ loadOK' = "ok"
    /\ pc' = "check"
    /\ UNCHANGED <<oracle, calls, callVars, results, derived, batchVars, tpos,
                   exc, faults, classified, mainVars, labelVars,
                   loaderVars, flattenVars>>

\* SourceMissing with the check forgotten: the source batch is passed over
SourceMissing_Unchecked ==
    /\ pc = "check"
    /\ source_lang \notin DOMAIN data_by_language
    /\ pc' = "next"
    /\ UNCHANGED <<classifier, loadCalls, loadOK, oracle, calls, callVars,
                   results, derived, batchVars, tpos, exc, faults,
                   classified, mainVars, labelVars, loaderVars,
                   flattenVars>>

\* lines 635-636: the source language is no key of the dataset
SourceMissing ==
    /\ pc = "check"
    /\ source_lang \notin DOMAIN data_by_language
    /\ Raise([type |-> "ValueError", missing |-> source_lang,
              available |-> DOMAIN data_by_language])
    /\ UNCHANGED <<classifier, loadCalls, loadOK, oracle, calls, callVars,
                   results, derived, batchVars, tpos, faults, classified,
                   mainVars, labelVars, loaderVars, flattenVars>>

\* the batch of language l starts: data = data_by_language[l][:sample_size]
BeginBatch(l) ==
    /\ lang' = l
    /\ data' = Slice(data_by_language[l], sample_size)
    /\ predictions' = <<>>
    /\ replies' = <<>>
    /\ pc' = "classify"

\* lines 643-645: the source language is processed first
BeginSource ==
    /\ pc = "check"
    /\ source_lang \in DOMAIN data_by_language
    /\ BeginBatch(source_lang)
    /\ UNCHANGED <<classifier, loadCalls, loadOK, oracle, calls, callVars,
                   results, derived, tpos, exc, faults, classified,
                   mainVars, labelVars, loaderVars, flattenVars>>

\* ------------------------------------------------------------------------
\* _classify_batch (lines 660-673), one loop iteration per step
\* ------------------------------------------------------------------------

\* CurrentItem with the batch walked from its end
CurrentItem_FromEnd == data[Len(data) - Len(predictions)]

\* the item the loop is at
CurrentItem == data[Len(predictions) + 1]

\* lines 664-669: the capability answers, result['labels'][0] is appended
ClassifyItem ==
    /\ pc = "classify"
    /\ Len(predictions) < Len(data)
    /\ predictions' = Append(predictions, oracle[CurrentItem.question])
    /\ replies' = Append(replies, [question |-> CurrentItem.question,
                                   top |-> oracle[CurrentItem.question]])
    /\ classified' = Append(classified, <<lang, CurrentItem.id>>)
    /\ UNCHANGED <<classifier, loadCalls, loadOK, oracle, calls, pc, callVars,
                   results, derived, lang, data, tpos, exc, faults,
                   mainVars, labelVars, loaderVars, flattenVars>>

\* ClassifyItemRaises without the try/except: the exception leaves the call
ClassifyItemRaises_Abort ==
    /\ pc = "classify"
    /\ Len(predictions) < Len(data)
    /\ faults < MaxFaults
    /\ faults' = faults + 1
    /\ classified' = Append(classified, <<lang, CurrentItem.id>>)
    /\ Raise([type |-> "ClassifierError"])
    /\ UNCHANGED <<classifier, loadCalls, loadOK, oracle, calls, callVars,
                   results, derived, batchVars, tpos, mainVars, labelVars,
                   loaderVars, flattenVars>>

\* lines 670-672: the capability raises on the item, labels[0] is appended
ClassifyItemRaises ==
    /\ pc = "classify"
    /\ Len(predictions) < Len(data)
    /\ faults < MaxFaults
    /\ faults' = faults + 1
    /\ predictions' = Append(predictions, labels[1])
    /\ replies' = Append(replies, [question |-> CurrentItem.question, top |-> "raised"])
    /\ classified' = Append(classified, <<lang, CurrentItem.id>>)
    /\ UNCHANGED <<classifier, loadCalls, loadOK, oracle, calls, pc, callVars,
                   results, derived, lang, data, tpos, exc, mainVars,
                   labelVars, loaderVars, flattenVars>>

\* lines 646 and 654: the batch is complete, its Evaluation Result is stored
StoreResult ==
    /\ pc = "classify"
    /\ Len(predictions) = Len(data)
    /\ results' = DictSet(results, lang, evaluate_predictions(predictions, data))
    /\ UNCHANGED derived
    /\ pc' = "next"
    /\ UNCHANGED <<classifier, loadCalls, loadOK, oracle, calls, callVars,
                   batchVars, tpos, exc, faults, classified, mainVars,
                   labelVars, loaderVars, flattenVars>>

\* lines 649-654: the next target language is a key of the dataset
BeginTarget ==
    /\ pc = "next"
    /\ tpos < Len(target_langs)
    /\ target_langs[tpos + 1] \in DOMAIN data_by_language
    /\ tpos' = tpos + 1
    /\ BeginBatch(target_langs[tpos + 1])
    /\ UNCHANGED <<classifier, loadCalls, loadOK, oracle, calls, callVars,
                   results, derived, exc, faults, classified, mainVars,
                   labelVars, loaderVars, flattenVars>>

\* SkipTarget with the membership test forgotten: the lookup raises KeyError
SkipTarget_KeyError ==
    /\ pc = "next"
    /\ tpos < Len(target_langs)
    /\ target_langs[tpos + 1] \notin DOMAIN data_by_language
    /\ tpos' = tpos + 1
    /\ Raise([type |-> "KeyError"])
    /\ UNCHANGED <<classifier, loadCalls, loadOK, oracle, calls, callVars,
                   results, derived, batchVars, faults, classified,
                   mainVars, labelVars, loaderVars, flattenVars>>

\* lines 655-656: the next target language is absent, a warning is logged
SkipTarget ==
    /\ pc = "next"
    /\ tpos < Len(target_langs)
    /\ target_langs[tpos + 1] \notin DOMAIN data_by_language
    /\ tpos' = tpos + 1
    /\ UNCHANGED <<classifier, loadCalls, loadOK, oracle, calls, pc, callVars,
                   results, derived, batchVars, exc, faults, classified,
                   mainVars, labelVars, loaderVars, flattenVars>>

\* line 658: return results
Return ==
    /\ pc = "next"
    /\ tpos = Len(target_langs)
    /\ pc' = "returned"
    /\ UNCHANGED <<classifier, loadCalls, loadOK, oracle, calls, callVars,
                   results, derived, batchVars, tpos, exc, faults,
                   classified, mainVars, labelVars, loaderVars,
                   flattenVars>>

\* the caller has taken the outcome of the call (the mapping or the exception);
\* the locals of the finished call are gone
Finish ==
    /\ mpc = "off"
    /\ pc \in { "returned", "raised" }
    /\ pc' = "idle"
    /\ data_by_language' = EmptyDict
    /\ source_lang' = ""
    /\ target_langs' = <<>>
    /\ sample_size' = 0
    /\ results' = EmptyDict
    /\ UNCHANGED derived
    /\ lang' = ""
    /\ data' = <<>>
    /\ predictions' = <<>>
    /\ replies' = <<>>
    /\ tpos' = 0
    /\ exc' = NoException
    /\ faults' = 0
    /\ classified' = <<>>
    /\ UNCHANGED <<classifier, loadCalls, loadOK, oracle, calls, mainVars,
                   labelVars, loaderVars, flattenVars>>

Perform ==
    \/ SkipLoad
    \/ LoadPipelineRaises
    \/ LoadLenRaises
    \/ LoadOK
    \/ SourceMissing
    \/ BeginSource
    \/ ClassifyItem
    \/ ClassifyItemRaises
    \/ StoreResult
    \/ BeginTarget
    \/ SkipTarget
    \/ Return

Next == Call \/ Perform \/ Finish

Spec == Init /\ [][Next]_vars

\* ------------------------------------------------------------------------
\* main (lines 675-717)
\* ------------------------------------------------------------------------
main_source_lang == "en"
main_target_langs == << "es", "de", "ru", "ar", "zh", "tr" >>
MainSampleSize == 100
RetrySampleSize == 2

\* what load_xquad_multilingual can hand to main: the fixture when no file is
\* usable, otherwise a non-empty mapping built from the files found
Loadable == { sample_data } \cup (Datasets \ { EmptyDict })

InitMain ==
    /\ classifier = 0
    /\ loadCalls = 0
    /\ loadOK = "none"
    /\ oracle \in Oracles
    /\ calls = 0
    /\ NoCall
    /\ mpc = "start"
    /\ mexc = NoException
    /\ attempts = 0
    /\ stdout = EmptyDict
    /\ lblAnswers = <<>>
    /\ lblOut = ""
    /\ NoLoader
    /\ NoFlatten

\* lines 682-693: the data is loaded and the evaluator is called with it (an
\* empty mapping raises ValueError at line 686 instead)
MainLoad ==
    /\ mpc = "start"
    /\ attempts' = attempts + 1
    /\ \E d \in Loadable :
          IF d = EmptyDict
          THEN /\ mpc' = "except"
               /\ mexc' = [type |-> "ValueError"]
               /\ UNCHANGED <<calls, pc, callVars, results, derived, batchVars,
                              tpos, exc, faults, classified>>
          ELSE /\ mpc' = "try"
               /\ Enter(d, main_source_lang, main_target_langs, MainSampleSize)
               /\ UNCHANGED mexc
    /\ UNCHANGED <<classifier, loadCalls, loadOK, oracle, stdout, labelVars,
                   loaderVars, flattenVars>>

\* line 683: probing the data directory raises (exists and glob are outside any
\* try of load_xquad_multilingual)
MainLoadRaises ==
    /\ mpc = "start"
    /\ attempts' = attempts + 1
    /\ mpc' = "except"
    /\ mexc' = [type |-> "OSError"]
    /\ UNCHANGED <<classifier, loadCalls, loadOK, oracle, calls, pc, callVars,
                   results, derived, batchVars, tpos, exc, faults,
                   classified, stdout, labelVars, loaderVars, flattenVars>>

\* lines 697-704: the line printed for one Evaluation Result
Summary(lang_results) ==
    IF "classification_report" \in DOMAIN lang_results
    THEN "weighted_f1"
    ELSE "no_report"

\* lines 695-704: the call returned, one summary is printed per language
MainPrint ==
    /\ mpc = "try"
    /\ pc = "returned"
    /\ stdout' = [l \in DOMAIN results |-> Summary(results[l])]
    /\ mpc' = "done"
    /\ UNCHANGED <<classifier, loadCalls, loadOK, oracle, calls, pc, callVars,
                   results, derived, batchVars, tpos, exc, faults,
                   classified, mexc, attempts, labelVars, loaderVars,
                   flattenVars>>

\* lines 706-708: an exception left the try block and is caught
MainCatch ==
    /\ mpc = "try"
    /\ pc = "raised"
    /\ mexc' = exc
    /\ mpc' = "except"
    /\ UNCHANGED <<classifier, loadCalls, loadOK, oracle, calls, pc, callVars,
                   results, derived, batchVars, tpos, exc, faults,
                   classified, attempts, stdout, labelVars, loaderVars,
                   flattenVars>>

\* lines 711-717: the handler calls the evaluator on the fixture
MainFallback ==
    /\ mpc = "except"
    /\ attempts' = attempts + 1
    /\ mpc' = "retry"
    /\ Enter(sample_data, main_source_lang, main_target_langs, RetrySampleSize)
    /\ UNCHANGED <<classifier, loadCalls, loadOK, oracle, mexc, stdout, labelVars,
                   loaderVars, flattenVars>>

\* the handler's call returned: main ends
MainRetryReturns ==
    /\ mpc = "retry"
    /\ pc = "returned"
    /\ mpc' = "done"
    /\ UNCHANGED <<classifier, loadCalls, loadOK, oracle, calls, pc, callVars,
                   results, derived, batchVars, tpos, exc, faults,
                   classified, mexc, attempts, stdout, labelVars,
                   loaderVars, flattenVars>>

\* MainRetryRaises with the handler's call guarded again: caught, retried
MainRetryRaises_CaughtAgain ==
    /\ mpc = "retry"
    /\ pc = "raised"
    /\ mpc' = "except"
    /\ mexc' = exc
    /\ UNCHANGED <<classifier, loadCalls, loadOK, oracle, calls, pc, callVars,
                   results, derived, batchVars, tpos, exc, faults,
                   classified, attempts, stdout, labelVars, loaderVars,
                   flattenVars>>

\* the handler's call raised: no handler is left, the exception leaves main
MainRetryRaises ==
    /\ mpc = "retry"
    /\ pc = "raised"
    /\ mpc' = "crashed"
    /\ UNCHANGED <<classifier, loadCalls, loadOK, oracle, calls, pc, callVars,
                   results, derived, batchVars, tpos, exc, faults,
                   classified, mexc, attempts, stdout, labelVars,
                   loaderVars, flattenVars>>

Main ==
    \/ MainLoad
    \/ MainLoadRaises
    \/ MainPrint
    \/ MainCatch
    \/ MainFallback
    \/ MainRetryReturns
    \/ MainRetryRaises

NextMain == Main \/ Perform

SpecMain == InitMain /\ [][NextMain]_vars

\* ------------------------------------------------------------------------
\* Specification of the pseudo-label derivation on bounded answer texts
\* ------------------------------------------------------------------------
Fragments ==
    { W_who, W_person, W_people, W_name,
      W_where, W_city, W_country, W_place,
      W_when, W_year, W_month, W_time,
      W_company, W_organization, W_institution,
      <<"W","h","o">>, <<"C","I","T","Y">>, <<"Y","e","a","r">>,
      <<"1">>, <<"2","0">>, <<".">>, <<",">>, <<" ">>, <<"f","o","x">> }

RECURSIVE Concat(_)
Concat(fs) == IF fs = <<>> THEN <<>> ELSE Head(fs) \o Concat(Tail(fs))

\* answer texts: concatenations of at most MaxFrags fragments
Texts == { Concat(fs) : fs \in UNION { [1..n -> Fragments] : n \in 0..MaxFrags } }

\* answers lists: empty, one answer, or two answers (only the first is read)
AnswerLists ==
    { <<>> }
    \cup { << [text |-> t] >> : t \in Texts }
    \cup { << [text |-> t], [text |-> u] >> : t \in Texts, u \in { W_who, <<"1">> } }

InitLabel ==
    /\ classifier = 0
    /\ loadCalls = 0
    /\ loadOK = "none"
    /\ oracle = [q \in Questions |-> "location"]
    /\ calls = 0
    /\ NoCall
    /\ mpc = "off"
    /\ mexc = NoException
    /\ attempts = 0
    /\ stdout = EmptyDict
    /\ lblAnswers \in AnswerLists
    /\ lblOut = ""
    /\ NoLoader
    /\ NoFlatten

DeriveLabel ==
    /\ lblOut = ""
    /\ lblOut' = PseudoLabel([answers |-> lblAnswers])
    /\ UNCHANGED <<classifier, loadCalls, loadOK, oracle, calls, pc, callVars,
                   results, derived, batchVars, tpos, exc, faults,
                   classified, mainVars, lblAnswers, loaderVars,
                   flattenVars>>

NextLabel == DeriveLabel

SpecLabel == InitLabel /\ [][NextLabel]_vars

\* ------------------------------------------------------------------------
\* Specification of the ground-truth loop (lines 50-64) on the fixture: the
\* evaluator is given create_sample_data() with main's source and target
\* languages, and the loop runs on the sampled records of each language in
\* turn, one iteration per step
\* ------------------------------------------------------------------------

\* sample sizes: those of the evaluator's inputs and the two main uses
FixtureSampleSizes == SampleSizes \cup { RetrySampleSize, MainSampleSize }

InitFixture ==
    /\ classifier = 0
    /\ loadCalls = 0
    /\ loadOK = "none"
    /\ oracle = [q \in Questions |-> "location"]
    /\ calls = 0
    /\ pc = "idle"
    /\ data_by_language = sample_data
    /\ source_lang = main_source_lang
    /\ target_langs = main_target_langs
    /\ sample_size \in FixtureSampleSizes
    /\ results = EmptyDict
    /\ derived = EmptyDict
    /\ lang = ""
    /\ data = <<>>
    /\ predictions = <<>>
    /\ replies = <<>>
    /\ tpos = 0
    /\ exc = NoException
    /\ faults = 0
    /\ classified = <<>>
    /\ mpc = "off"
    /\ mexc = NoException
    /\ attempts = 0
    /\ stdout = EmptyDict
    /\ lblAnswers = <<>>
    /\ lblOut = ""
    /\ NoLoader
    /\ NoFlatten

\* the languages in the order the evaluator takes them
FixtureSchedule == << source_lang >> \o target_langs

\* the loop on the current language has ended (none is current at the start)
LanguageDerived == IF lang = "" THEN TRUE ELSE Len(derived[lang]) = Len(data)

\* lines 644/652 and 50: the next language is sampled, ground_truth = []
FixtureNextLanguage ==
    /\ LanguageDerived
    /\ tpos < Len(FixtureSchedule)
    /\ tpos' = tpos + 1
    /\ lang' = FixtureSchedule[tpos + 1]
    /\ data' = Slice(data_by_language[FixtureSchedule[tpos + 1]], sample_size)
    /\ derived' = DictSet(derived, FixtureSchedule[tpos + 1], <<>>)
    /\ UNCHANGED <<classifier, loadCalls, loadOK, oracle, calls, pc, callVars,
                   results, predictions, replies, exc, faults, classified,
                   mainVars, labelVars, loaderVars, flattenVars>>

\* lines 51-64: one iteration appends the category of the next item
FixtureDeriveItem ==
    /\ lang # ""
    /\ Len(derived[lang]) < Len(data)
    /\ derived' = [derived EXCEPT
                     ![lang] = Append(@, PseudoLabel(data[Len(derived[lang]) + 1]))]
    /\ UNCHANGED <<classifier, loadCalls, loadOK, oracle, calls, pc, callVars,
                   results, batchVars, tpos, exc, faults, classified,
                   mainVars, labelVars, loaderVars, flattenVars>>

NextFixture == FixtureNextLanguage \/ FixtureDeriveItem

SpecFixture == InitFixture /\ [][NextFixture]_vars

\* ------------------------------------------------------------------------
\* Specification of _process_xquad_data on bounded parsed files
\* ------------------------------------------------------------------------

\* number of articles of a file
ArticleCounts == 0..2

\* the qa at position q of paragraph p of article a: unique id, one of two
\* questions, and an answers list with one, two or no answers
QaAt(a, p, q) ==
    [ id |-> << a, p, q >>,
      question |-> IF q % 2 = 1 THEN "q1" ELSE "q2",
      answers |-> CASE (a + p + q) % 3 = 0 -> << [text |-> W_city] >>
                    [] (a + p + q) % 3 = 1 ->
                           << [text |-> <<"1", ",", "2">>], [text |-> W_who] >>
                    [] OTHER -> << >> ]

\* a dict without one of its keys
Without(rec, key) == [k \in (DOMAIN rec) \ { key } |-> rec[k]]

\* a defect of a file: one article, paragraph or qa lacks one key
NoDefect == [level |-> "none", a |-> 0, p |-> 0, q |-> 0, key |-> ""]

Hit(defect, level, a, p, q) ==
    defect.level = level /\ defect.a = a /\ defect.p = p /\ defect.q = q

QaOf(a, p, q, defect) ==
    IF Hit(defect, "qa", a, p, q) THEN Without(QaAt(a, p, q), defect.key) ELSE QaAt(a, p, q)

ParagraphOf(a, p, nq, defect) ==
    LET full == [ context |-> << "ctx", a, p >>,
                  qas |-> [q \in 1..nq |-> QaOf(a, p, q, defect)] ]
    IN IF Hit(defect, "paragraph", a, p, 0) THEN Without(full, defect.key) ELSE full

ArticleOf(a, pshape, defect) ==
    LET full == [ title |-> << "title", a >>,
                  paragraphs |-> [p \in 1..Len(pshape) |->
                                     ParagraphOf(a, p, pshape[p], defect)] ]
    IN IF Hit(defect, "article", a, 0, 0) THEN Without(full, defect.key) ELSE full

\* the parsed file of the given shape (shape[a][p] is the number of qas of
\* paragraph p of article a) with the given defect
XquadDoc(shape, defect) ==
    [ type |-> "dict",
      obj |-> [ version |-> "1.1",
                data |-> [a \in 1..Len(shape) |-> ArticleOf(a, shape[a], defect)] ] ]

ParagraphShapes == UNION { [1..n -> 0..MaxQas] : n \in 0..MaxParagraphs }
Shapes == UNION { [1..n -> ParagraphShapes] : n \in ArticleCounts }

DefectsOf(shape) ==
    { NoDefect }
    \cup { [level |-> "article", a |-> a, p |-> 0, q |-> 0, key |-> "paragraphs"] :
             a \in 1..Len(shape) }
    \cup UNION { { [level |-> "paragraph", a |-> a, p |-> p, q |-> 0, key |-> k] :
                     p \in 1..Len(shape[a]), k \in { "context", "qas" } } :
                 a \in 1..Len(shape) }
    \cup UNION { UNION { { [level |-> "qa", a |-> a, p |-> p, q |-> q, key |-> k] :
                             q \in 1..shape[a][p], k \in { "question", "answers", "id" } } :
                         p \in 1..Len(shape[a]) } :
                 a \in 1..Len(shape) }

\* parsed files of another top-level shape: a dict without 'data', a list, a
\* number
V_dict_without_data == [type |-> "dict", obj |-> [version |-> "1.1"]]
V_list == [type |-> "list", items |-> << QaAt(1, 1, 1) >>]
V_number == [type |-> "number"]

OtherValues == { V_dict_without_data, V_list, V_number }

InitFlatten ==
    /\ classifier = 0
    /\ loadCalls = 0
    /\ loadOK = "none"
    /\ oracle = [q \in Questions |-> "location"]
    /\ calls = 0
    /\ NoCall
    /\ mpc = "off"
    /\ mexc = NoException
    /\ attempts = 0
    /\ stdout = EmptyDict
    /\ lblAnswers = <<>>
    /\ lblOut = ""
    /\ NoLoader
    /\ \/ \E sh \in Shapes : \E d \in DefectsOf(sh) : raw_data = XquadDoc(sh, d)
       \/ raw_data \in OtherValues
    /\ fpc = "start"
    /\ processed_data = <<>>

\* the call _process_xquad_data(raw_data)
ProcessRaw ==
    /\ fpc = "start"
    /\ processed_data' = process_xquad_data(raw_data)
    /\ fpc' = "done"
    /\ UNCHANGED <<classifier, loadCalls, loadOK, oracle, calls, pc, callVars,
                   results, derived, batchVars, tpos, exc, faults, classified,
                   mainVars, labelVars, loaderVars, raw_data>>

NextFlatten == ProcessRaw

SpecFlatten == InitFlatten /\ [][NextFlatten]_vars

\* ------------------------------------------------------------------------
\* load_xquad_multilingual (lines 89-127).  The directory base_path is the
\* record of: exists (the path exists), fault (probing it raises, as stat
\* does without search permission on a parent), other (it holds an entry named
\* xquad* that is no language's xquad-{lang}.json), files (the content of
\* xquad-{lang}.json for each language that has this entry).
\* ------------------------------------------------------------------------
supported_languages == << "en", "es", "de", "ar", "ru", "zh", "tr" >>

\* the languages that may have a file in the model
FileLangs == { "en", "es", "tr" }

\* a file that open() raises on, a file json.load raises on, a file that
\* parses to the value v
F_unreadable == [state |-> "unreadable"]
F_invalid == [state |-> "invalid"]
F_json(v) == [state |-> "json", value |-> v]

\* parsed files: a good file of four records, a file with no article, a file
\* whose second article lacks 'paragraphs', a file whose second qa lacks 'id'
D_good == XquadDoc(<< << 1, 2 >>, << 1 >> >>, NoDefect)
D_empty == XquadDoc(<< >>, NoDefect)
D_no_paragraphs ==
    XquadDoc(<< << 1 >>, << 1 >> >>,
             [level |-> "article", a |-> 2, p |-> 0, q |-> 0, key |-> "paragraphs"])
D_no_id ==
    XquadDoc(<< << 2 >> >>, [level |-> "qa", a |-> 1, p |-> 1, q |-> 2, key |-> "id"])

FileContents ==
    { F_unreadable, F_invalid }
    \cup { F_json(v) : v \in { D_good, D_empty, D_no_paragraphs, D_no_id,
                               V_dict_without_data, V_number } }

\* the entry xquad-{l}.json exists (file_path.exists(), line 106)
FileExists(l) == l \in DOMAIN base_path.files

\* any(base_path.glob("xquad*")) (line 94)
GlobFinds == base_path.other \/ DOMAIN base_path.files # {}

InitLoad ==
    /\ classifier = 0
    /\ loadCalls = 0
    /\ loadOK = "none"
    /\ oracle = [q \in Questions |-> "location"]
    /\ calls = 0
    /\ NoCall
    /\ mpc = "off"
    /\ mexc = NoException
    /\ attempts = 0
    /\ stdout = EmptyDict
    /\ lblAnswers = <<>>
    /\ lblOut = ""
    /\ NoFlatten
    /\ \/ \E f \in BOOLEAN :
             base_path = [exists |-> FALSE, fault |-> f, other |-> FALSE, files |-> EmptyDict]
       \/ \E o \in BOOLEAN : \E K \in SUBSET FileLangs : \E c \in [K -> FileContents] :
             base_path = [exists |-> TRUE, fault |-> FALSE, other |-> o, files |-> c]
    /\ lpc = "start"
    /\ lpos = 0
    /\ loaded = EmptyDict
    /\ lexc = NoException

\* line 94: base_path.exists() raises; nothing in the function catches it
LoadProbeRaises ==
    /\ lpc = "start"
    /\ base_path.fault
    /\ lpc' = "raised"
    /\ lexc' = [type |-> "OSError"]
    /\ UNCHANGED <<classifier, loadCalls, loadOK, oracle, calls, pc, callVars,
                   results, derived, batchVars, tpos, exc, faults, classified,
                   mainVars, labelVars, base_path, lpos, loaded, flattenVars>>

\* lines 94-96: the path does not exist or holds no xquad* entry: the fixture
LoadNoFiles ==
    /\ lpc = "start"
    /\ ~base_path.fault
    /\ ~base_path.exists \/ ~GlobFinds
    /\ loaded' = sample_data
    /\ lpc' = "returned"
    /\ UNCHANGED <<classifier, loadCalls, loadOK, oracle, calls, pc, callVars,
                   results, derived, batchVars, tpos, exc, faults, classified,
                   mainVars, labelVars, base_path, lpos, lexc, flattenVars>>

\* line 98: the loop over supported_languages is entered
LoadBeginLoop ==
    /\ lpc = "start"
    /\ ~base_path.fault
    /\ base_path.exists /\ GlobFinds
    /\ lpc' = "loop"
    /\ UNCHANGED <<classifier, loadCalls, loadOK, oracle, calls, pc, callVars,
                   results, derived, batchVars, tpos, exc, faults, classified,
                   mainVars, labelVars, base_path, lpos, loaded, lexc, flattenVars>>

\* the language the loop is at
LoopLang == supported_languages[lpos + 1]

\* lines 116-117: no file for the language, a warning is logged
LangFileMissing ==
    /\ lpc = "loop"
    /\ lpos < Len(supported_languages)
    /\ ~FileExists(LoopLang)
    /\ lpos' = lpos + 1
    /\ UNCHANGED <<classifier, loadCalls, loadOK, oracle, calls, pc, callVars,
                   results, derived, batchVars, tpos, exc, faults, classified,
                   mainVars, labelVars, base_path, lpc, loaded, lexc, flattenVars>>

\* lines 111-112 and 119-121: open() or json.load() raises, the error is logged
\* and the loop continues
LangFileRaises ==
    /\ lpc = "loop"
    /\ lpos < Len(supported_languages)
    /\ FileExists(LoopLang)
    /\ base_path.files[LoopLang].state \in { "unreadable", "invalid" }
    /\ lpos' = lpos + 1
    /\ UNCHANGED <<classifier, loadCalls, loadOK, oracle, calls, pc, callVars,
                   results, derived, batchVars, tpos, exc, faults, classified,
                   mainVars, labelVars, base_path, lpc, loaded, lexc, flattenVars>>

\* lines 110-115: the file parses; what _process_xquad_data returns for it is
\* stored under the language
LangLoaded ==
    /\ lpc = "loop"
    /\ lpos < Len(supported_languages)
    /\ FileExists(LoopLang)
    /\ base_path.files[LoopLang].state = "json"
    /\ loaded' = DictSet(loaded, LoopLang,
                         process_xquad_data(base_path.files[LoopLang].value))
    /\ lpos' = lpos + 1
    /\ UNCHANGED <<classifier, loadCalls, loadOK, oracle, calls, pc, callVars,
                   results, derived, batchVars, tpos, exc, faults, classified,
                   mainVars, labelVars, base_path, lpc, lexc, flattenVars>>

\* LoadFallbackEmpty with the test of line 123 forgotten: {} is returned
LoadFallbackEmpty_ReturnsEmpty ==
    /\ lpc = "loop"
    /\ lpos = Len(supported_languages)
    /\ DOMAIN loaded = {}
    /\ lpc' = "returned"
    /\ UNCHANGED <<classifier, loadCalls, loadOK, oracle, calls, pc, callVars,
                   results, derived, batchVars, tpos, exc, faults, classified,
                   mainVars, labelVars, base_path, lpos, loaded, lexc, flattenVars>>

\* lines 123-125: the loop stored nothing: the fixture
LoadFallbackEmpty ==
    /\ lpc = "loop"
    /\ lpos = Len(supported_languages)
    /\ DOMAIN loaded = {}
    /\ loaded' = sample_data
    /\ lpc' = "returned"
    /\ UNCHANGED <<classifier, loadCalls, loadOK, oracle, calls, pc, callVars,
                   results, derived, batchVars, tpos, exc, faults, classified,
                   mainVars, labelVars, base_path, lpos, lexc, flattenVars>>

\* line 127: return data_by_language
LoadReturn ==
    /\ lpc = "loop"
    /\ lpos = Len(supported_languages)
    /\ DOMAIN loaded # {}
    /\ lpc' = "returned"
    /\ UNCHANGED <<classifier, loadCalls, loadOK, oracle, calls, pc, callVars,
                   results, derived, batchVars, tpos, exc, faults, classified,
                   mainVars, labelVars, base_path, lpos, loaded, lexc, flattenVars>>

NextLoad ==
    \/ LoadProbeRaises
    \/ LoadNoFiles
    \/ LoadBeginLoop
    \/ LangFileMissing
    \/ LangFileRaises
    \/ LangLoaded
    \/ LoadFallbackEmpty
    \/ LoadReturn

SpecLoad == InitLoad /\ [][NextLoad]_vars

\* ------------------------------------------------------------------------
\* Properties
\* ------------------------------------------------------------------------
Min(a, b) == IF a < b THEN a ELSE b
Max(a, b) == IF a > b THEN a ELSE b

\* the languages asked for in the current call
Requested == { source_lang } \cup { target_langs[i] : i \in 1..Len(target_langs) }

\* number of records the dataset of the current call holds for language l
RecordCount(l) == Len(data_by_language[l])

\* C1 (as stated): when the call has returned, every entry of the Results
\* Mapping has len(predictions) = len(ground_truth) = min(sample_size, number
\* of records of the language), and this length is nonzero when the language
\* has a record and sample_size >= 1.
C1_Original ==
    pc = "returned" =>
        \A l \in DOMAIN results :
            /\ Len(results[l].predictions) = Min(sample_size, RecordCount(l))
            /\ Len(results[l].ground_truth) = Min(sample_size, RecordCount(l))
            /\ (RecordCount(l) >= 1 /\ sample_size >= 1) => Len(results[l].predictions) # 0

\* C1 (amended): when the call has returned, every entry of the Results
\* Mapping, normal or degraded, has len(predictions) = len(ground_truth) =
\* number of sampled records, which is min(sample_size, n) for sample_size >= 0
\* and max(0, n + sample_size) for a negative sample_size, n being the number of
\* records of the language; the length is nonzero when n >= 1 and
\* sample_size >= 1.
C1_Lengths ==
    pc = "returned" =>
        \A l \in DOMAIN results :
            LET n == RecordCount(l)
                sampled == IF sample_size >= 0 THEN Min(sample_size, n)
                           ELSE Max(0, n + sample_size)
            IN /\ Len(results[l].predictions) = sampled
               /\ Len(results[l].ground_truth) = sampled
               /\ (n >= 1 /\ sample_size >= 1) => sampled # 0

\* C1 witness: a returned call whose sample was cut by a negative sample_size and
\* another language's entry is empty
C1_Witness ==
    /\ pc = "returned"
    /\ sample_size = -1
    /\ \E l \in DOMAIN results : RecordCount(l) = 2 /\ Len(results[l].predictions) = 1
    /\ \E l \in DOMAIN results : Len(results[l].ground_truth) = 0

C4_KeySet ==
    /\ pc = "returned" => DOMAIN results = Requested \cap DOMAIN data_by_language
    /\ pc = "raised" => tpos = 0 /\ results = EmptyDict

\* C4 witness: a returned call with an absent target, a present target, and a
\* degraded entry for the present one
C4_Witness ==
    /\ pc = "returned"
    /\ \E i \in 1..Len(target_langs) : target_langs[i] \notin DOMAIN data_by_language
    /\ \E i \in 1..Len(target_langs) :
          /\ target_langs[i] # source_lang
          /\ target_langs[i] \in DOMAIN results
          /\ "error" \in DOMAIN results[target_langs[i]]

\* every sampled record of the batch has an answers list whose first answer,
\* if any, has a text
WellFormedBatch ==
    \A i \in 1..Len(data) :
        /\ "answers" \in DOMAIN data[i]
        /\ data[i].answers # <<>> => "text" \in DOMAIN data[i].answers[1]

\* the batch of `lang` was classified and its Evaluation Result was just stored
BatchStored == pc = "next" /\ lang \in DOMAIN results

\* C2: once the result of a batch is stored, if the batch has at least one
\* record, all its records are well-formed and the capability returned a label
\* for every item, the stored result is the normal form: it has an accuracy
\* equal to (number of i with predictions[i] = pseudo-label of record i) over
\* the number of sampled records, and its ground_truth is the sequence of the
\* pseudo-labels.
C2_NormalForm ==
    ( /\ BatchStored
      /\ Len(data) >= 1
      /\ WellFormedBatch
      /\ \A i \in 1..Len(replies) : replies[i].top # "raised" ) =>
        /\ "accuracy" \in DOMAIN results[lang]
        /\ "error" \notin DOMAIN results[lang]
        /\ results[lang].ground_truth = [i \in 1..Len(data) |-> PseudoLabel(data[i])]
        /\ results[lang].accuracy =
              << Cardinality({ i \in 1..Len(data) :
                                 results[lang].predictions[i] = PseudoLabel(data[i]) }),
                 Len(data) >>

\* C5: once the result of a batch is stored in a call with sample_size >= 0, the
\* sampled records are the first min(sample_size, n) records of the language in
\* their order, predictions[i] of the stored result is the label produced for
\* the question of the i-th sampled record, and ground_truth[i] is derived from
\* that same record.
C5_Alignment ==
    (BatchStored /\ sample_size >= 0) =>
        LET all == data_by_language[lang]
            k == Min(sample_size, Len(all))
        IN /\ Len(data) = k
           /\ \A i \in 1..k : data[i] = all[i]
           /\ Len(results[lang].predictions) = k
           /\ \A i \in 1..k :
                 /\ replies[i].question = all[i].question
                 /\ results[lang].predictions[i] =
                       IF replies[i].top = "raised" THEN labels[1] ELSE replies[i].top
           /\ WellFormedBatch =>
                 results[lang].ground_truth = [i \in 1..k |-> PseudoLabel(all[i])]

\* C7: in _classify_batch a failure of the capability on any items never leaves
\* the batch: every item of the batch gets a prediction at its own index, the
\* first label of the label set for an item the capability failed on, the
\* capability's top-ranked label for the others, and no exception that leaves
\* the call comes from a batch.
C7_BatchSurvivesFailures ==
    /\ pc \in { "classify", "next", "returned" } =>
          /\ Len(replies) = Len(predictions)
          /\ Len(predictions) <= Len(data)
          /\ \A i \in 1..Len(predictions) :
                /\ replies[i].question = data[i].question
                /\ predictions[i] = IF replies[i].top = "raised"
                                    THEN "person"
                                    ELSE oracle[data[i].question]
    /\ pc \in { "next", "returned" } => Len(predictions) = Len(data)
    /\ pc = "raised" => classified = <<>>
    /\ labels[1] = "person"

\* C7 witness: a complete batch of two items in which the capability failed on
\* the first item and answered with another label on the second
C7_Witness ==
    /\ pc = "next"
    /\ Len(data) = 2
    /\ replies[1].top = "raised"
    /\ replies[2].top = "location"
    /\ predictions = << "person", "location" >>

\* C8: whenever a step of _evaluate_predictions fails on a batch (ground-truth
\* derivation or a metric), nothing is raised: the stored result has exactly
\* the keys error, predictions and ground_truth, its predictions are the
\* batch's predictions unchanged and its ground_truth is "unknown" repeated
\* len(predictions) times.
C8_DegradedResult ==
    /\ (BatchStored /\ (~WellFormedBatch \/ MetricsRaise)) =>
          /\ DOMAIN results[lang] = { "error", "predictions", "ground_truth" }
          /\ results[lang].predictions = predictions
          /\ Len(results[lang].ground_truth) = Len(predictions)
          /\ \A i \in 1..Len(predictions) : results[lang].ground_truth[i] = "unknown"
    /\ pc = "raised" => exc.type \in { "LoadError", "ValueError" }

\* C8 witness: the ground-truth derivation failed on a batch of two records
\* (the second has no answers key) and the degraded result is stored
C8_Witness ==
    /\ BatchStored
    /\ Len(data) = 2
    /\ "answers" \notin DOMAIN data[2]
    /\ results[lang].error = "KeyError"
    /\ results[lang].ground_truth = << "unknown", "unknown" >>

\* the rule table of the pseudo-label derivation, in priority order: keyword
\* rules name their keywords, the number rule has none, the last rule is the
\* default
RuleTable ==
    << [category |-> "person", keywords |-> { W_who, W_person, W_people, W_name }],
       [category |-> "location", keywords |-> { W_where, W_city, W_country, W_place }],
       [category |-> "date", keywords |-> { W_when, W_year, W_month, W_time }],
       [category |-> "number", keywords |-> {}],
       [category |-> "organization",
        keywords |-> { W_company, W_organization, W_institution }],
       [category |-> "description", keywords |-> {}] >>

\* word occurs in text at some offset
Occurs(word, text) ==
    \E off \in 0..(Len(text) - Len(word)) :
        \A j \in 1..Len(word) : text[off + j] = word[j]

\* the text without '.' and ','
Stripped(text) == SelectSeq(text, LAMBDA c : c \notin { ".", "," })

\* rule r of the table applies to the text
RuleApplies(r, text) ==
    CASE r = 4 -> /\ Stripped(text) # <<>>
                  /\ \A i \in 1..Len(Stripped(text)) : Stripped(text)[i] \in DigitChars
      [] r = 6 -> TRUE
      [] OTHER -> \E w \in RuleTable[r].keywords : Occurs(w, Lower(text))

\* the first rule that applies
FirstRule(text) ==
    CHOOSE r \in 1..Len(RuleTable) :
        RuleApplies(r, text) /\ \A q \in 1..(r - 1) : ~RuleApplies(q, text)

\* C6: the pseudo-label of a record is the category of the first rule of the
\* ordered table (person, location, date, number, organization, description)
\* that applies to the first answer's text, or to "unknown" when the record has
\* no answer; it depends on that text only, is one of the six categories, and a
\* record without answers gets description.
C6_RuleTable ==
    lblOut # "" =>
        LET text == IF lblAnswers = <<>> THEN T_unknown ELSE lblAnswers[1].text
        IN /\ lblOut = RuleTable[FirstRule(text)].category
           /\ lblOut \in { "person", "location", "date", "number", "organization",
                           "description" }
           /\ lblAnswers = <<>> => lblOut = "description"

\* C6 witness: the derivation ran on a text that holds a location keyword
\* before a person keyword, and on which the earlier rule (person) won
C6_Witness ==
    /\ lblAnswers = << [text |-> W_city \o W_who] >>
    /\ lblOut = "person"

\* C9: a load_model failure caught nowhere in the evaluator is fatal for main:
\* once main's first attempt ended with the load error, the fixture is not
\* substituted and the pipeline is not started again.
C9_LoadFailureFatal ==
    mexc.type = "LoadError" => (attempts = 1 /\ mpc \notin { "retry", "done" })

\* the state of main allows what happened so far: at most two attempts; the
\* second one only after an exception of the first was caught, and made on the
\* fixture with sample size 2 and the source and target languages of the first;
\* a crash only out of the second attempt
C10_State ==
    /\ attempts \in 0..2
    /\ mpc = "try" =>
          /\ attempts = 1
          /\ source_lang = "en"
          /\ target_langs = << "es", "de", "ru", "ar", "zh", "tr" >>
          /\ sample_size = 100
    /\ attempts = 2 =>
          /\ mexc.type \in { "LoadError", "ValueError", "OSError" }
          /\ mpc \in { "retry", "done", "crashed" }
          /\ data_by_language = sample_data
          /\ sample_size = 2
          /\ source_lang = "en"
          /\ target_langs = << "es", "de", "ru", "ar", "zh", "tr" >>
    /\ mpc = "crashed" => (attempts = 2 /\ pc = "raised")

\* a step of main never starts an attempt without a caught exception, and an
\* exception out of the second attempt ends main
C10_Step ==
    /\ attempts' # attempts => (attempts' = attempts + 1 /\ mpc \in { "start", "except" })
    /\ (mpc = "retry" /\ pc = "raised") => mpc' = "crashed"
    /\ mpc \in { "retry", "done", "crashed" } => attempts' = attempts
    /\ mpc = "crashed" => UNCHANGED vars

\* C10: main attempts the pipeline at most twice; the second attempt happens
\* only after an exception of the first attempt, uses the fixture with sample
\* size 2 and the same source and target languages, and an exception of the
\* second attempt is not caught and starts no further attempt.
C10_SingleRetry == [](C10_State) /\ [][C10_Step]_vars

\* C10 witness: the second attempt raised and main ended with that exception
C10_Witness ==
    /\ mpc = "crashed"
    /\ attempts = 2
    /\ exc.type = "LoadError"

\* C11: over all calls made on one instance (the retry of main included),
\* load_model is invoked at most once, and no record is handed to the
\* capability before load_model was invoked.
C11_LoadOnce ==
    /\ loadCalls <= 1
    /\ classified # <<>> => loadCalls >= 1

\* C18: a load_model call that raised has left self.classifier unset, and no
\* record is handed to the capability on an instance whose latest load_model
\* call did not complete.
C18_NoUseAfterFailedLoad ==
    /\ loadOK = "raised" => classifier = 0
    /\ classified # <<>> => loadOK = "ok"

\* C16: within one call, the Evaluation Result of a language is produced at
\* most once (a result is never stored under a key that already has one), and
\* an entry of the Results Mapping, once stored, stays in the mapping unchanged
\* while the call runs, whatever target_langs holds (repeated languages and
\* source_lang included).
C16_AppendOnly ==
    [][ /\ (pc = "classify" /\ pc' = "next") => lang \notin DOMAIN results
        /\ pc \in { "classify", "next" } =>
              \A l \in DOMAIN results :
                  l \in DOMAIN results' /\ results'[l] = results[l] ]_vars

\* the languages whose batches the current call processes, in processing order
Schedule ==
    << source_lang >> \o SelectSeq(target_langs, LAMBDA l : l \in DOMAIN data_by_language)

\* the records of language l the current call samples, as handed to the
\* capability: the language and the record's id
ItemsOf(l) ==
    LET sampled == Slice(data_by_language[l], sample_size)
    IN [i \in 1..Len(sampled) |-> << l, sampled[i].id >>]

\* all sampled records of the first k languages of schedule sched, in order
ExpectedOrder(sched, k) == Concat([j \in 1..k |-> ItemsOf(sched[j])])

\* number of batches the current call has begun
Started == 1 + Cardinality({ i \in 1..tpos : target_langs[i] \in DOMAIN data_by_language })

\* C17: within one call the capability is called on the sampled records of
\* source_lang in record order, then on those of each target language present
\* in the dataset, in the order of target_langs and in record order; when a
\* record of a language is classified the results of all languages before it
\* are stored; a returned call has classified the records of the whole
\* schedule; no record of an absent target is classified, and nothing is
\* classified by a call that raises.
C17_ClassificationOrder ==
    /\ pc \in { "classify", "next", "returned" } =>
          LET sched == Schedule
              k == Started
          IN /\ k <= Len(sched)
             /\ lang = sched[k]
             /\ classified = ExpectedOrder(sched, k - 1)
                               \o SubSeq(ItemsOf(lang), 1, Len(predictions))
             /\ \A j \in 1..(k - 1) : sched[j] \in DOMAIN results
             /\ pc \in { "next", "returned" } => lang \in DOMAIN results
             /\ pc = "returned" =>
                   /\ k = Len(sched)
                   /\ Len(predictions) = Len(ItemsOf(lang))
    /\ \A i \in 1..Len(classified) : classified[i][1] \in DOMAIN data_by_language
    /\ pc \in { "entry", "check", "raised" } => classified = <<>>

\* C17 witness: a returned call with an absent target before a present one, two
\* records classified for the source and then two for the present target
C17_Witness ==
    /\ pc = "returned"
    /\ source_lang = "en"
    /\ target_langs = << "fr", "es" >>
    /\ classified = << << "en", << "en", 1 >> >>, << "en", << "en", 2 >> >>,
                       << "es", << "es", 1 >> >>, << "es", << "es", 2 >> >> >>

\* the six categories of the pseudo-label derivation
Categories == { "person", "location", "date", "number", "organization", "description" }

\* C15: when the ground-truth loop has run on all records of all languages of
\* the fixture (sample size 100, more than any fixture language holds), the
\* derived lists hold every one of the six categories at least once.
C15_FixtureCoverage ==
    ( /\ tpos = Len(FixtureSchedule)
      /\ LanguageDerived
      /\ sample_size = MainSampleSize ) =>
        \A c \in Categories :
            \E l \in DOMAIN derived : \E i \in 1..Len(derived[l]) : derived[l][i] = c

\* the parsed file is a dict whose 'data' holds articles with 'paragraphs',
\* paragraphs with 'context' and 'qas', and qas with 'question', 'answers', 'id'
WellFormedRaw(raw) ==
    /\ raw.type = "dict"
    /\ "data" \in DOMAIN raw.obj
    /\ \A a \in 1..Len(raw.obj.data) :
          /\ "paragraphs" \in DOMAIN raw.obj.data[a]
          /\ \A p \in 1..Len(raw.obj.data[a].paragraphs) :
                LET par == raw.obj.data[a].paragraphs[p]
                IN /\ { "context", "qas" } \subseteq DOMAIN par
                   /\ \A q \in 1..Len(par.qas) :
                         { "question", "answers", "id" } \subseteq DOMAIN par.qas[q]

\* the positions <<article, paragraph, qa>> of the qas of a well-formed file
QaPositions(raw) ==
    UNION { UNION { { << a, p, q >> : q \in 1..Len(raw.obj.data[a].paragraphs[p].qas) } :
                    p \in 1..Len(raw.obj.data[a].paragraphs) } :
            a \in 1..Len(raw.obj.data) }

\* position x comes before position y in document order
DocBefore(x, y) ==
    \/ x[1] < y[1]
    \/ x[1] = y[1] /\ x[2] < y[2]
    \/ x[1] = y[1] /\ x[2] = y[2] /\ x[3] < y[3]

\* C14: for a well-formed nested input the function returns as many records as
\* the input has qas, and the qa at a position of the input is the record whose
\* index is one more than the number of qas before it in document order
\* (articles, then paragraphs, then qas): it has exactly the keys context,
\* question, answers, id, with the qa's question, answers list and id
\* unchanged and the context of the paragraph that holds the qa.
C14_Flatten ==
    (fpc = "done" /\ WellFormedRaw(raw_data)) =>
        /\ Len(processed_data) = Cardinality(QaPositions(raw_data))
        /\ \A pos \in QaPositions(raw_data) :
              LET index == 1 + Cardinality({ x \in QaPositions(raw_data) : DocBefore(x, pos) })
                  par == raw_data.obj.data[pos[1]].paragraphs[pos[2]]
                  qa == par.qas[pos[3]]
              IN /\ DOMAIN processed_data[index] = { "context", "question", "answers", "id" }
                 /\ processed_data[index].id = qa.id
                 /\ processed_data[index].question = qa.question
                 /\ processed_data[index].answers = qa.answers
                 /\ processed_data[index].context = par.context

\* C14 witness: a file of two articles, the first with paragraphs of one and
\* two qas, the second with one paragraph of two qas, was flattened to five
\* records; the fourth is the first qa of the second article, with its two
\* answers, the fifth has an empty answers list
C14_Witness ==
    /\ fpc = "done"
    /\ WellFormedRaw(raw_data)
    /\ Len(raw_data.obj.data) = 2
    /\ Len(processed_data) = 5
    /\ processed_data[2].id = << 1, 2, 1 >>
    /\ processed_data[4].id = << 2, 1, 1 >>
    /\ processed_data[4].context = << "ctx", 2, 1 >>
    /\ Len(processed_data[4].answers) = 2
    /\ processed_data[5].answers = << >>

\* the set of supported languages
SupportedSet == { supported_languages[i] : i \in 1..Len(supported_languages) }

\* the mapping is the built-in fixture
IsFixture(d) == DOMAIN d = DOMAIN sample_data /\ d = sample_data

\* no supported language has a file that parses
NoFileParses ==
    \A l \in SupportedSet : FileExists(l) => base_path.files[l].state # "json"

\* C12: load_xquad_multilingual raises only when probing the path itself
\* fails, never because a path or file is missing; it never returns an empty
\* mapping; it returns the fixture when the base path does not exist, when no
\* language has its xquad-{lang}.json, and when the loop stored nothing; the
\* fixture has the seven supported languages, each with at least one record,
\* and every record has a non-empty answers list.
C12_FixtureFallback ==
    /\ lpc = "raised" => base_path.fault
    /\ lpc = "returned" =>
          /\ DOMAIN loaded # {}
          /\ ( \/ ~base_path.exists
               \/ \A l \in SupportedSet : ~FileExists(l)
               \/ NoFileParses ) => IsFixture(loaded)
          /\ IsFixture(loaded) =>
                /\ DOMAIN loaded = SupportedSet
                /\ \A l \in DOMAIN loaded :
                      /\ Len(loaded[l]) >= 1
                      /\ \A i \in 1..Len(loaded[l]) :
                            /\ "answers" \in DOMAIN loaded[l][i]
                            /\ Len(loaded[l][i].answers) >= 1

\* C12 witness: the directory exists and holds xquad* entries, of which the
\* only language file does not parse; the loop stored nothing and the fixture
\* was returned
C12_Witness ==
    /\ lpc = "returned"
    /\ base_path.exists
    /\ base_path.other
    /\ DOMAIN base_path.files = { "es" }
    /\ base_path.files["es"] = F_invalid
    /\ lpos = Len(supported_languages)
    /\ IsFixture(loaded)

\* the records of a well-formed parsed file, in document order
RecordsOf(raw) ==
    [ i \in 1..Cardinality(QaPositions(raw)) |->
        LET pos == CHOOSE y \in QaPositions(raw) :
                       Cardinality({ x \in QaPositions(raw) : DocBefore(x, y) }) = i - 1
            par == raw.obj.data[pos[1]].paragraphs[pos[2]]
        IN [ context |-> par.context, question |-> par.qas[pos[3]].question,
             answers |-> par.qas[pos[3]].answers, id |-> par.qas[pos[3]].id ] ]

\* the parsed file has 'data' but an article, paragraph or qa lacks a key
Malformed(raw) == raw.type = "dict" /\ "data" \in DOMAIN raw.obj /\ ~WellFormedRaw(raw)

\* the file of language l is missing, cannot be parsed, or is malformed
FileFails(l) ==
    \/ ~FileExists(l)
    \/ base_path.files[l].state \in { "unreadable", "invalid" }
    \/ base_path.files[l].state = "json" /\ Malformed(base_path.files[l].value)

\* the file of language l is a well-formed nested file
FileWellFormed(l) ==
    /\ FileExists(l)
    /\ base_path.files[l].state = "json"
    /\ WellFormedRaw(base_path.files[l].value)

\* C13: when load_xquad_multilingual has returned a mapping built from the
\* files (the fixture fallback is the case of C12), a supported language whose
\* file is missing, not parseable or malformed is no key of the returned
\* mapping, and every language with a well-formed file is a key of it, with all
\* the records of the file, whatever the files of the other languages are.
C13_FailedLanguageOmitted ==
    (lpc = "returned" /\ ~IsFixture(loaded)) =>
        \A l \in SupportedSet :
            /\ FileFails(l) => l \notin DOMAIN loaded
            /\ FileWellFormed(l) =>
                  /\ l \in DOMAIN loaded
                  /\ loaded[l] = RecordsOf(base_path.files[l].value)

====
